---- MODULE Spec2Model ----
(* A model of providers/dns/sakuracloud/sakuracloud.go: the SakuraCloud      *)
(* DNS-01 provider (configuration, construction, Present, CleanUp, Timeout). *)
(* Durations are in seconds, strings that the code cuts or parses are        *)
(* sequences of characters, pointers are addresses into a heap of Config     *)
(* objects (address 0 is nil).                                               *)
EXTENDS Integers, Sequences, FiniteSets, TLC

VARIABLES
    heap,       \* the Config objects alive: address -> Config
    cfg,        \* the caller's *Config variable (0 = nil)
    d,          \* the caller's *DNSProvider variable (NilProvider = nil)
    sdk,        \* the SDK's package-level variables
    zone,       \* the records of the external DNS zone
    requests,   \* requests received by the external DNS API, per kind
    calls,      \* calls of Present and of CleanUp made so far
    built,      \* what d.config held when d was constructed
    ret         \* the last call: its arguments and what it returned

vars == <<heap, cfg, d, sdk, zone, requests, calls, built, ret>>

----------------------------------------------------------------------------
(* Bounds *)

NumAddrs == 3
MaxSlashes == 2
MaxCalls == 2

----------------------------------------------------------------------------
(* Errors: a chain of messages, outermost first; NoErr is nil. *)

NoErr == <<>>

New(msg) == <<msg>>

Wrap(err) == <<"sakuracloud: ">> \o err

ErrNilConfig == New("sakuracloud: the configuration of the DNS provider is nil")

ErrTokenMissing == New("sakuracloud: AccessToken is missing")

ErrSecretMissing == New("sakuracloud: AccessSecret is missing")

----------------------------------------------------------------------------
(* Environment variables *)

EnvAccessToken == "SAKURACLOUD_ACCESS_TOKEN"

EnvAccessTokenSecret == "SAKURACLOUD_ACCESS_TOKEN_SECRET"

EnvTTL == "SAKURACLOUD_TTL"

EnvPropagationTimeout == "SAKURACLOUD_PROPAGATION_TIMEOUT"

EnvPollingInterval == "SAKURACLOUD_POLLING_INTERVAL"

EnvHTTPTimeout == "SAKURACLOUD_HTTP_TIMEOUT"

EnvNames == {EnvAccessToken, EnvAccessTokenSecret, EnvTTL,
             EnvPropagationTimeout, EnvPollingInterval, EnvHTTPTimeout}

\* An environment gives every variable a value, a sequence of characters;
\* an unset variable reads as the empty one.
MkEnv(tok, sec, ttl, pt, pi, http) ==
    [n \in EnvNames |->
        CASE n = EnvAccessToken -> tok
          [] n = EnvAccessTokenSecret -> sec
          [] n = EnvTTL -> ttl
          [] n = EnvPropagationTimeout -> pt
          [] n = EnvPollingInterval -> pi
          [] n = EnvHTTPTimeout -> http]

Envs ==
    { MkEnv(<<"t","k">>, <<"s","c">>, <<3,0,0>>, <<9,0>>, <<5>>, <<3,0>>),
      MkEnv(<<"t","k">>, <<"s","c">>, <<>>, <<>>, <<>>, <<>>),
      MkEnv(<<"t","k">>, <<"s","c">>, <<6,0>>, <<>>, <<7>>, <<>>),
      MkEnv(<<>>, <<"s","c">>, <<3,0,0>>, <<9,0>>, <<5>>, <<3,0>>),
      MkEnv(<<"t","k">>, <<>>, <<3,0,0>>, <<9,0>>, <<5>>, <<3,0>>),
      MkEnv(<<>>, <<>>, <<>>, <<>>, <<>>, <<>>) }

\* strconv.Atoi on a sequence of decimal digits.
RECURSIVE Atoi(_)
Atoi(s) == IF s = <<>> THEN 0 ELSE 10 * Atoi(SubSeq(s, 1, Len(s) - 1)) + s[Len(s)]

\* env.Get: the values of the named variables, or an error naming the ones
\* that are unset or empty.
Missing(env, names) == {n \in names : env[n] = <<>>}

Get(env, names) ==
    IF Missing(env, names) # {}
    THEN [values |-> <<>>,
          err |-> <<"some credentials information are missing">>
                  \o (IF EnvAccessToken \in Missing(env, names)
                      THEN <<EnvAccessToken>> ELSE <<>>)
                  \o (IF EnvAccessTokenSecret \in Missing(env, names)
                      THEN <<EnvAccessTokenSecret>> ELSE <<>>)]
    ELSE [values |-> [n \in names |-> env[n]], err |-> NoErr]

GetOrDefaultInt(env, name, defaultValue) ==
    IF env[name] = <<>> THEN defaultValue ELSE Atoi(env[name])

GetOrDefaultSecond(env, name, defaultValue) ==
    IF env[name] = <<>> THEN defaultValue ELSE Atoi(env[name])

DefaultTTL == 120

DefaultPropagationTimeout == 60

DefaultPollingInterval == 2

DefaultHTTPTimeout == 10

----------------------------------------------------------------------------
(* Config and the heap *)

NilPtr == 0

Addrs == 1..NumAddrs

\* NewDefaultConfig with the two duration variables taken for each other.
NewDefaultConfigSwapped(env) ==
    [Token |-> <<>>,
     Secret |-> <<>>,
     PropagationTimeout |->
         GetOrDefaultSecond(env, EnvPollingInterval, DefaultPropagationTimeout),
     PollingInterval |->
         GetOrDefaultSecond(env, EnvPropagationTimeout, DefaultPollingInterval),
     TTL |-> GetOrDefaultInt(env, EnvTTL, DefaultTTL),
     HTTPClient |-> [Timeout |-> GetOrDefaultSecond(env, EnvHTTPTimeout, DefaultHTTPTimeout)]]

NewDefaultConfig(env) ==
    [Token |-> <<>>,
     Secret |-> <<>>,
     PropagationTimeout |->
         GetOrDefaultSecond(env, EnvPropagationTimeout, DefaultPropagationTimeout),
     PollingInterval |->
         GetOrDefaultSecond(env, EnvPollingInterval, DefaultPollingInterval),
     TTL |-> GetOrDefaultInt(env, EnvTTL, DefaultTTL),
     HTTPClient |-> [Timeout |-> GetOrDefaultSecond(env, EnvHTTPTimeout, DefaultHTTPTimeout)]]

\* The Config values a caller fills in by hand.
CallerTokens == {<<>>, <<"t","k">>}

CallerSecrets == {<<>>, <<"s","c">>}

CallerTTLs == {120, 300}

CallerConfig(tok, sec, ttl) ==
    [Token |-> tok, Secret |-> sec,
     PropagationTimeout |-> DefaultPropagationTimeout,
     PollingInterval |-> DefaultPollingInterval,
     TTL |-> ttl,
     HTTPClient |-> [Timeout |-> DefaultHTTPTimeout]]

\* Allocation takes the lowest free address.
FreeAddrs(h) == Addrs \ DOMAIN h

Fresh(h) == CHOOSE a \in FreeAddrs(h) : \A b \in FreeAddrs(h) : a <= b

Alloc(h, c) == [a \in DOMAIN h \cup {Fresh(h)} |-> IF a = Fresh(h) THEN c ELSE h[a]]

\* Garbage collection: only the objects the caller or the provider points to
\* stay.
Collect(h, roots) == [a \in DOMAIN h \cap roots |-> h[a]]

----------------------------------------------------------------------------
(* The SDK: options, package-level variables, the API caller *)

DefaultUserAgent == <<"iaas-api-go">>

UserAgent == DefaultUserAgent \o <<" ", "goacme-lego">>

Slashes(n) == [i \in 1..n |-> "/"]

APIRootURLs ==
    {base \o Slashes(n) : base \in {<<>>, <<"u", "/", "v">>}, n \in 0..MaxSlashes}

\* What api.DefaultOption() can load from the SDK's own environment and
\* profile.
DefaultOptions ==
    [AccessToken : {<<>>},
     AccessTokenSecret : {<<>>},
     HttpClient : {[Timeout |-> 0]},
     UserAgent : {<<>>},
     DefaultZone : {"", "tk1a"},
     Zones : {<<>>, <<"tk1a", "tk1b">>},
     APIRootURL : APIRootURLs]

\* The SDK's environment names nothing, or a zone, a zone list and an API root.
PlainOptions ==
    {o \in DefaultOptions :
        \/ o.DefaultZone = "" /\ o.Zones = <<>> /\ o.APIRootURL = <<>>
        \/ o.DefaultZone # "" /\ o.Zones # <<>> /\ Len(o.APIRootURL) = 3 + MaxSlashes}

ErrProfile == New("loading the profile failed")

DefaultOptionResults ==
    {[opts |-> o, err |-> NoErr] : o \in DefaultOptions}
        \cup {[opts |-> <<>>, err |-> ErrProfile]}

PlainOptionResults ==
    {[opts |-> o, err |-> NoErr] : o \in PlainOptions}
        \cup {[opts |-> <<>>, err |-> ErrProfile]}

\* api.MergeOptions: a later option's non-empty field replaces the earlier
\* one's.
MergeOptions(a, b) ==
    [AccessToken |-> IF b.AccessToken # <<>> THEN b.AccessToken ELSE a.AccessToken,
     AccessTokenSecret |->
         IF b.AccessTokenSecret # <<>> THEN b.AccessTokenSecret ELSE a.AccessTokenSecret,
     HttpClient |-> IF b.HttpClient.Timeout # 0 THEN b.HttpClient ELSE a.HttpClient,
     UserAgent |-> IF b.UserAgent # <<>> THEN b.UserAgent ELSE a.UserAgent,
     DefaultZone |-> IF b.DefaultZone # "" THEN b.DefaultZone ELSE a.DefaultZone,
     Zones |-> IF Len(b.Zones) > 0 THEN b.Zones ELSE a.Zones,
     APIRootURL |-> IF b.APIRootURL # <<>> THEN b.APIRootURL ELSE a.APIRootURL]

\* The options NewDNSProviderConfig builds from the config.
CallerOptions(config) ==
    [AccessToken |-> config.Token,
     AccessTokenSecret |-> config.Secret,
     HttpClient |-> config.HTTPClient,
     UserAgent |-> UserAgent,
     DefaultZone |-> "",
     Zones |-> <<>>,
     APIRootURL |-> <<>>]

HasSuffix(s, c) == Len(s) > 0 /\ s[Len(s)] = c

RECURSIVE TrimRight(_, _)
TrimRight(s, c) ==
    IF HasSuffix(s, c) THEN TrimRight(SubSeq(s, 1, Len(s) - 1), c) ELSE s

StatePollingTimeout == 72 * 3600

\* newCaller with the default zone overwritten whatever opts.DefaultZone is.
newCallerZoneAlways(s, opts) ==
    [caller |-> [AccessToken |-> opts.AccessToken,
                 AccessTokenSecret |-> opts.AccessTokenSecret,
                 HttpClient |-> opts.HttpClient,
                 UserAgent |-> IF opts.UserAgent = <<>> THEN DefaultUserAgent
                               ELSE opts.UserAgent],
     sdk |-> [DefaultStatePollingTimeout |-> StatePollingTimeout,
              APIDefaultZone |-> opts.DefaultZone,
              SakuraCloudZones |->
                  IF Len(opts.Zones) > 0 THEN opts.Zones ELSE s.SakuraCloudZones,
              SakuraCloudAPIRoot |->
                  IF opts.APIRootURL # <<>>
                  THEN TrimRight(opts.APIRootURL, "/")
                  ELSE s.SakuraCloudAPIRoot]]

\* newCaller with strings.TrimSuffix in the place of strings.TrimRight.
newCallerTrimSuffix(s, opts) ==
    [caller |-> [AccessToken |-> opts.AccessToken,
                 AccessTokenSecret |-> opts.AccessTokenSecret,
                 HttpClient |-> opts.HttpClient,
                 UserAgent |-> IF opts.UserAgent = <<>> THEN DefaultUserAgent
                               ELSE opts.UserAgent],
     sdk |-> [DefaultStatePollingTimeout |-> StatePollingTimeout,
              APIDefaultZone |->
                  IF opts.DefaultZone # "" THEN opts.DefaultZone ELSE s.APIDefaultZone,
              SakuraCloudZones |->
                  IF Len(opts.Zones) > 0 THEN opts.Zones ELSE s.SakuraCloudZones,
              SakuraCloudAPIRoot |->
                  IF opts.APIRootURL = <<>> THEN s.SakuraCloudAPIRoot
                  ELSE IF HasSuffix(opts.APIRootURL, "/")
                  THEN SubSeq(opts.APIRootURL, 1, Len(opts.APIRootURL) - 1)
                  ELSE opts.APIRootURL]]

\* newCaller: the caller it returns and the package-level variables it
\* leaves.
newCaller(s, opts) ==
    LET ua == IF opts.UserAgent = <<>> THEN DefaultUserAgent ELSE opts.UserAgent
        root == IF HasSuffix(opts.APIRootURL, "/")
                THEN TrimRight(opts.APIRootURL, "/")
                ELSE opts.APIRootURL
    IN [caller |-> [AccessToken |-> opts.AccessToken,
                    AccessTokenSecret |-> opts.AccessTokenSecret,
                    HttpClient |-> opts.HttpClient,
                    UserAgent |-> ua],
        sdk |-> [DefaultStatePollingTimeout |-> StatePollingTimeout,
                 APIDefaultZone |->
                     IF opts.DefaultZone # "" THEN opts.DefaultZone ELSE s.APIDefaultZone,
                 SakuraCloudZones |->
                     IF Len(opts.Zones) > 0 THEN opts.Zones ELSE s.SakuraCloudZones,
                 SakuraCloudAPIRoot |->
                     IF opts.APIRootURL # <<>> THEN root ELSE s.SakuraCloudAPIRoot]]

newCallerWithOptions(s, opts) == newCaller(s, opts)

----------------------------------------------------------------------------
(* Construction *)

NilProvider == [config |-> NilPtr, client |-> <<>>]

\* NewDNSProviderConfig with the Secret checked before the Token.
NewDNSProviderConfigSecretFirst(h, p, s, o) ==
    IF p = NilPtr THEN [prov |-> NilProvider, err |-> ErrNilConfig, sdk |-> s]
    ELSE IF h[p].Secret = <<>>
    THEN [prov |-> NilProvider, err |-> ErrSecretMissing, sdk |-> s]
    ELSE IF h[p].Token = <<>>
    THEN [prov |-> NilProvider, err |-> ErrTokenMissing, sdk |-> s]
    ELSE IF o.err # NoErr
    THEN [prov |-> NilProvider, err |-> Wrap(o.err), sdk |-> s]
    ELSE LET c == newCallerWithOptions(s, MergeOptions(o.opts, CallerOptions(h[p])))
         IN [prov |-> [config |-> p, client |-> c.caller], err |-> NoErr, sdk |-> c.sdk]

\* NewDNSProviderConfig with the caller built before the Secret is checked.
NewDNSProviderConfigEarlyCaller(h, p, s, o) ==
    IF p = NilPtr THEN [prov |-> NilProvider, err |-> ErrNilConfig, sdk |-> s]
    ELSE IF h[p].Token = <<>>
    THEN [prov |-> NilProvider, err |-> ErrTokenMissing, sdk |-> s]
    ELSE IF o.err # NoErr
    THEN [prov |-> NilProvider, err |-> Wrap(o.err), sdk |-> s]
    ELSE LET c == newCallerWithOptions(s, MergeOptions(o.opts, CallerOptions(h[p])))
         IN IF h[p].Secret = <<>>
            THEN [prov |-> NilProvider, err |-> ErrSecretMissing, sdk |-> c.sdk]
            ELSE [prov |-> [config |-> p, client |-> c.caller], err |-> NoErr,
                  sdk |-> c.sdk]

\* What NewDNSProviderConfig returns and leaves, for a config pointer p into
\* heap h, package-level variables s and the outcome o of api.DefaultOption().
NewDNSProviderConfigResult(h, p, s, o) ==
    IF p = NilPtr THEN [prov |-> NilProvider, err |-> ErrNilConfig, sdk |-> s]
    ELSE IF h[p].Token = <<>>
    THEN [prov |-> NilProvider, err |-> ErrTokenMissing, sdk |-> s]
    ELSE IF h[p].Secret = <<>>
    THEN [prov |-> NilProvider, err |-> ErrSecretMissing, sdk |-> s]
    ELSE IF o.err # NoErr
    THEN [prov |-> NilProvider, err |-> Wrap(o.err), sdk |-> s]
    ELSE LET c == newCallerWithOptions(s, MergeOptions(o.opts, CallerOptions(h[p])))
         IN [prov |-> [config |-> p, client |-> c.caller], err |-> NoErr, sdk |-> c.sdk]

\* The caller keeps a provider that was returned and drops a nil one.
Keep(r) == IF r.prov # NilProvider THEN r.prov ELSE d

KeepBuilt(h, r) ==
    IF r.prov # NilProvider
    THEN [timeout |-> h[r.prov.config].PropagationTimeout,
          interval |-> h[r.prov.config].PollingInterval,
          touched |-> FALSE]
    ELSE built

Snapshot(h, p) == IF p = NilPtr THEN <<>> ELSE <<h[p]>>

\* The caller makes a Config and fills it in.
NewConfig(c) ==
    /\ heap' = Collect(Alloc(heap, c), {Fresh(heap), d.config})
    /\ cfg' = Fresh(heap)
    /\ ret' = [op |-> "NewConfig"]
    /\ UNCHANGED <<d, sdk, zone, requests, calls, built>>

\* The caller drops its Config.
DropConfig ==
    /\ cfg # NilPtr
    /\ cfg' = NilPtr
    /\ heap' = Collect(heap, {d.config})
    /\ ret' = [op |-> "DropConfig"]
    /\ UNCHANGED <<d, sdk, zone, requests, calls, built>>

NewDNSProviderConfig(o) ==
    LET r == NewDNSProviderConfigResult(heap, cfg, sdk, o)
    IN /\ d' = Keep(r)
       /\ built' = KeepBuilt(heap, r)
       /\ sdk' = r.sdk
       /\ heap' = Collect(heap, {cfg, Keep(r).config})
       /\ ret' = [op |-> "NewDNSProviderConfig", config |-> Snapshot(heap, cfg),
                  option |-> o, prov |-> r.prov, err |-> r.err, sdkBefore |-> sdk]
       /\ UNCHANGED <<cfg, zone, requests, calls>>

NewDNSProvider(env, o) ==
    LET got == Get(env, {EnvAccessToken, EnvAccessTokenSecret})
        config == [NewDefaultConfig(env) EXCEPT
                      !.Token = got.values[EnvAccessToken],
                      !.Secret = got.values[EnvAccessTokenSecret]]
        h == Alloc(heap, config)
        r == IF got.err # NoErr
             THEN [prov |-> NilProvider, err |-> Wrap(got.err), sdk |-> sdk]
             ELSE NewDNSProviderConfigResult(h, Fresh(heap), sdk, o)
    IN /\ d' = Keep(r)
       /\ built' = IF got.err # NoErr THEN built ELSE KeepBuilt(h, r)
       /\ sdk' = r.sdk
       /\ heap' = IF got.err # NoErr THEN heap ELSE Collect(h, {cfg, Keep(r).config})
       /\ ret' = [op |-> "NewDNSProvider", env |-> env, option |-> o,
                  config |-> IF r.prov # NilProvider THEN <<h[r.prov.config]>> ELSE <<>>,
                  prov |-> r.prov, err |-> r.err, sdkBefore |-> sdk]
       /\ UNCHANGED <<cfg, zone, requests, calls>>

----------------------------------------------------------------------------
(* The DNS-01 challenge and the external DNS zone *)

Domains == {"example.com", "alias.org"}

Tokens == {"token1", "token2"}

KeyAuths == {"keyAuth1", "keyAuth2"}

ErrAPI == New("the DNS API failed")

APIOutcomes == {NoErr, ErrAPI}

\* The challenge name of a domain, and where the resolver follows it to: the
\* name itself unless it is a CNAME.
ChallengeFQDN(domain) == <<"_acme-challenge", domain>>

CNAME(fqdn) ==
    IF fqdn = ChallengeFQDN("alias.org") THEN ChallengeFQDN("target.net") ELSE fqdn

\* dns01.GetChallengeInfo: the record name and value of a challenge. The value
\* is the digest of the key authorization.
GetChallengeInfo(domain, keyAuth) ==
    [FQDN |-> ChallengeFQDN(domain),
     EffectiveFQDN |-> CNAME(ChallengeFQDN(domain)),
     Value |-> <<"sha256", keyAuth>>]

\* addTXTRecord: one create request to the DNS API, which adds the record
\* unless it fails (outcome api).
addTXTRecord(z, fqdn, value, ttl, api) ==
    [zone |-> IF api = NoErr
              THEN z \cup {[fqdn |-> fqdn, value |-> value, ttl |-> ttl]}
              ELSE z,
     sent |-> <<[kind |-> "create", fqdn |-> fqdn, value |-> value, ttl |-> ttl]>>,
     err |-> api]

\* cleanupTXTRecord: one delete request to the DNS API, which removes the TXT
\* record of that name and value unless it fails (outcome api).
cleanupTXTRecord(z, fqdn, value, api) ==
    [zone |-> IF api = NoErr
              THEN {r \in z : ~(r.fqdn = fqdn /\ r.value = value)}
              ELSE z,
     sent |-> <<[kind |-> "delete", fqdn |-> fqdn, value |-> value]>>,
     err |-> api]

\* Present sending the request again when it failed.
PresentRetry(z, c, domain, token, keyAuth, api) ==
    LET info == GetChallengeInfo(domain, keyAuth)
        r == addTXTRecord(z, info.EffectiveFQDN, info.Value, c.TTL, api)
    IN [zone |-> r.zone,
        sent |-> IF r.err # NoErr THEN r.sent \o r.sent ELSE r.sent,
        err |-> IF r.err # NoErr THEN Wrap(r.err) ELSE NoErr]

\* Present returning nil whatever the API said.
PresentSwallow(z, c, domain, token, keyAuth, api) ==
    LET info == GetChallengeInfo(domain, keyAuth)
        r == addTXTRecord(z, info.EffectiveFQDN, info.Value, c.TTL, api)
    IN [zone |-> r.zone, sent |-> r.sent, err |-> NoErr]

\* Present taking the challenge value from the token.
PresentFromToken(z, c, domain, token, keyAuth, api) ==
    LET info == GetChallengeInfo(domain, token)
        r == addTXTRecord(z, info.EffectiveFQDN, info.Value, c.TTL, api)
    IN [zone |-> r.zone, sent |-> r.sent,
        err |-> IF r.err # NoErr THEN Wrap(r.err) ELSE NoErr]

\* What Present does and returns, on zone z, for a provider whose config is c.
PresentResult(z, c, domain, token, keyAuth, api) ==
    LET info == GetChallengeInfo(domain, keyAuth)
        r == addTXTRecord(z, info.EffectiveFQDN, info.Value, c.TTL, api)
    IN [zone |-> r.zone, sent |-> r.sent,
        err |-> IF r.err # NoErr THEN Wrap(r.err) ELSE NoErr]

\* CleanUp looking for the record under the name before CNAMEs are followed.
CleanUpFQDN(z, c, domain, token, keyAuth, api) ==
    LET info == GetChallengeInfo(domain, keyAuth)
        r == cleanupTXTRecord(z, info.FQDN, info.Value, api)
    IN [zone |-> r.zone, sent |-> r.sent,
        err |-> IF r.err # NoErr THEN Wrap(r.err) ELSE NoErr]

\* What CleanUp does and returns.
CleanUpResult(z, c, domain, token, keyAuth, api) ==
    LET info == GetChallengeInfo(domain, keyAuth)
        r == cleanupTXTRecord(z, info.EffectiveFQDN, info.Value, api)
    IN [zone |-> r.zone, sent |-> r.sent,
        err |-> IF r.err # NoErr THEN Wrap(r.err) ELSE NoErr]

\* Timeout with the two durations in the other order.
TimeoutSwapped(c) == [timeout |-> c.PollingInterval, interval |-> c.PropagationTimeout]

\* What Timeout returns.
TimeoutResult(c) == [timeout |-> c.PropagationTimeout, interval |-> c.PollingInterval]

Count(sent, kind) == Cardinality({i \in DOMAIN sent : sent[i].kind = kind})

Received(sent) ==
    [create |-> requests.create + Count(sent, "create"),
     delete |-> requests.delete + Count(sent, "delete")]

Present(domain, token, keyAuth, api) ==
    /\ d # NilProvider
    /\ calls.Present < MaxCalls
    /\ LET r == PresentResult(zone, heap[d.config], domain, token, keyAuth, api)
       IN /\ zone' = r.zone
          /\ requests' = Received(r.sent)
          /\ ret' = [op |-> "Present", domain |-> domain, token |-> token,
                     keyAuth |-> keyAuth, api |-> api, sent |-> r.sent,
                     err |-> r.err, zoneBefore |-> zone]
    /\ calls' = [calls EXCEPT !.Present = @ + 1]
    /\ UNCHANGED <<heap, cfg, d, sdk, built>>

\* History: the zone as it was before the call that came just before this one,
\* when that call was a successful Present with the same arguments.
Presented(domain, token, keyAuth) ==
    IF /\ ret.op = "Present"
       /\ ret.err = NoErr
       /\ ret.domain = domain /\ ret.token = token /\ ret.keyAuth = keyAuth
    THEN <<ret.zoneBefore>>
    ELSE <<>>

CleanUp(domain, token, keyAuth, api) ==
    /\ d # NilProvider
    /\ calls.CleanUp < MaxCalls
    /\ LET r == CleanUpResult(zone, heap[d.config], domain, token, keyAuth, api)
       IN /\ zone' = r.zone
          /\ requests' = Received(r.sent)
          /\ ret' = [op |-> "CleanUp", domain |-> domain, token |-> token,
                     keyAuth |-> keyAuth, api |-> api, sent |-> r.sent,
                     err |-> r.err, presented |-> Presented(domain, token, keyAuth)]
    /\ calls' = [calls EXCEPT !.CleanUp = @ + 1]
    /\ UNCHANGED <<heap, cfg, d, sdk, built>>

Timeout ==
    /\ d # NilProvider
    /\ ret' = [op |-> "Timeout", pair |-> TimeoutResult(heap[d.config])]
    /\ UNCHANGED <<heap, cfg, d, sdk, zone, requests, calls, built>>

\* The caller writes a field of the Config its variable points to.
ConfigWrites ==
    {<<"PropagationTimeout", DefaultPropagationTimeout>>, <<"PropagationTimeout", 90>>,
     <<"PollingInterval", DefaultPollingInterval>>, <<"PollingInterval", 5>>}

SetConfig(field, v) ==
    /\ cfg # NilPtr
    /\ heap' = [heap EXCEPT ![cfg][field] = v]
    /\ built' = [built EXCEPT !.touched = @ \/ (d.config = cfg /\ heap'[cfg] # heap[cfg])]
    /\ ret' = [op |-> "SetConfig"]
    /\ UNCHANGED <<cfg, d, sdk, zone, requests, calls>>

----------------------------------------------------------------------------

InitSDK ==
    [DefaultStatePollingTimeout |-> 20 * 60,
     APIDefaultZone |-> "is1a",
     SakuraCloudZones |-> <<"is1a", "is1b", "tk1a", "tk1b">>,
     SakuraCloudAPIRoot |-> <<"r">>]

\* Records the zone may hold before the provider touches it.
InitialRecords ==
    {[fqdn |-> <<"www", "example.com">>, value |-> <<"text">>, ttl |-> 3600],
     [fqdn |-> ChallengeFQDN("example.com"), value |-> <<"sha256", "keyAuth1">>, ttl |-> 30]}

Start(z) ==
    /\ heap = <<>>
    /\ cfg = NilPtr
    /\ d = NilProvider
    /\ sdk = InitSDK
    /\ zone = z
    /\ requests = [create |-> 0, delete |-> 0]
    /\ calls = [Present |-> 0, CleanUp |-> 0]
    /\ built = [timeout |-> 0, interval |-> 0, touched |-> FALSE]
    /\ ret = [op |-> "none"]

Init == Start(InitialRecords)

InitAnyZone == \E z \in SUBSET InitialRecords : Start(z)

NoOptions ==
    [opts |-> CHOOSE o \in DefaultOptions :
                 o.DefaultZone = "" /\ o.Zones = <<>> /\ o.APIRootURL = <<>>,
     err |-> NoErr]

ValidConfig(ttl) == CallerConfig(<<"t","k">>, <<"s","c">>, ttl)

\* Construction from a Config value.
NextCtor ==
    \/ \E tok \in CallerTokens, sec \in CallerSecrets :
           NewConfig(CallerConfig(tok, sec, DefaultTTL))
    \/ DropConfig
    \/ \E o \in DefaultOptionResults : NewDNSProviderConfig(o)

SpecCtor == Init /\ [][NextCtor]_vars

\* Construction from the environment.
NextEnv ==
    \/ \E env \in Envs, o \in PlainOptionResults : NewDNSProvider(env, o)
    \/ Timeout

SpecEnv == Init /\ [][NextEnv]_vars

\* Both constructors.
NextBuild ==
    \/ \E tok \in CallerTokens, sec \in CallerSecrets :
           NewConfig(CallerConfig(tok, sec, DefaultTTL))
    \/ DropConfig
    \/ \E o \in PlainOptionResults : NewDNSProviderConfig(o)
    \/ \E env \in Envs, o \in PlainOptionResults : NewDNSProvider(env, o)

SpecBuild == Init /\ [][NextBuild]_vars

\* A provider at work on a zone.
NextDNS ==
    \/ NewConfig(ValidConfig(DefaultTTL))
    \/ NewDNSProviderConfig(NoOptions)
    \/ \E domain \in Domains, keyAuth \in KeyAuths, api \in APIOutcomes :
           Present(domain, "token1", keyAuth, api)
    \/ \E domain \in Domains, keyAuth \in KeyAuths, api \in APIOutcomes :
           CleanUp(domain, "token1", keyAuth, api)

SpecDNS == InitAnyZone /\ [][NextDNS]_vars

\* A provider called with different tokens, under different TTLs.
NextToken ==
    \/ \E ttl \in CallerTTLs : NewConfig(ValidConfig(ttl))
    \/ NewDNSProviderConfig(NoOptions)
    \/ \E token \in Tokens, keyAuth \in KeyAuths, api \in APIOutcomes :
           Present("alias.org", token, keyAuth, api)
    \/ \E token \in Tokens, keyAuth \in KeyAuths, api \in APIOutcomes :
           CleanUp("alias.org", token, keyAuth, api)

SpecToken == Init /\ [][NextToken]_vars

\* A provider and a caller that keeps writing to its Config.
NextTimeout ==
    \/ NewConfig(ValidConfig(DefaultTTL))
    \/ NewDNSProviderConfig(NoOptions)
    \/ \E w \in ConfigWrites : SetConfig(w[1], w[2])
    \/ Timeout
    \/ \E api \in APIOutcomes : Present("example.com", "token1", "keyAuth1", api)
    \/ \E api \in APIOutcomes : CleanUp("example.com", "token1", "keyAuth1", api)

SpecTimeout == Init /\ [][NextTimeout]_vars

----------------------------------------------------------------------------
(* Properties *)

Matches(r, sent) == r.fqdn = sent.fqdn /\ r.value = sent.value

IsCtor == ret.op \in {"NewDNSProviderConfig", "NewDNSProvider"}

\* The options newCaller received from the SDK's defaults in the last
\* construction.
Loaded == ret.option.opts

\* s is url without the "/" characters that end it.
IsStripped(s, url) ==
    \E k \in 0..Len(url) :
        /\ s = SubSeq(url, 1, k)
        /\ \A i \in (k + 1)..Len(url) : url[i] = "/"
        /\ k > 0 => url[k] # "/"

\* C1: a successful CleanUp that comes right after a successful Present with
\* the same domain, token and keyAuth asks for the removal of the record (same
\* name, same value) that Present asked to create, and leaves the zone as it was
\* before Present, less the records of that name and value.
C1_CleanUpRemovesPresented ==
    (ret.op = "CleanUp" /\ ret.err = NoErr /\ ret.presented # <<>>) =>
        LET created ==
                [fqdn |-> GetChallengeInfo(ret.domain, ret.keyAuth).EffectiveFQDN,
                 value |-> GetChallengeInfo(ret.domain, ret.keyAuth).Value]
        IN /\ Matches(ret.sent[1], created)
           /\ \A r \in zone : ~Matches(r, created)
           /\ \A r \in ret.presented[1] : ~Matches(r, created) => r \in zone
           /\ zone \subseteq ret.presented[1]

C1_Witness ==
    /\ ret.op = "CleanUp" /\ ret.err = NoErr /\ ret.presented # <<>>
    /\ ret.domain = "alias.org"
    /\ zone # {}
    /\ zone # ret.presented[1]

\* C2: NewDNSProviderConfig returns no provider and the matching error for a
\* nil config, then for an empty Token, then for an empty Secret, in that
\* order; it returns a provider and no error only for a config with both set
\* (and default options that loaded).
C2_ValidatesInOrder ==
    ret.op = "NewDNSProviderConfig" =>
        LET c == ret.config
            ok == ret.prov # NilProvider /\ ret.err = NoErr
        IN /\ c = <<>> => ret.prov = NilProvider /\ ret.err = ErrNilConfig
           /\ (c # <<>> /\ c[1].Token = <<>>) =>
                  ret.prov = NilProvider /\ ret.err = ErrTokenMissing
           /\ (c # <<>> /\ c[1].Token # <<>> /\ c[1].Secret = <<>>) =>
                  ret.prov = NilProvider /\ ret.err = ErrSecretMissing
           /\ ok <=> (/\ c # <<>>
                      /\ c[1].Token # <<>>
                      /\ c[1].Secret # <<>>
                      /\ ret.option.err = NoErr)
           /\ ret.prov = NilProvider <=> ret.err # NoErr

C2_Witness ==
    /\ ret.op = "NewDNSProviderConfig"
    /\ ret.config # <<>>
    /\ ret.config[1].Token = <<>>
    /\ ret.config[1].Secret = <<>>
    /\ ret.err = ErrTokenMissing

\* C3: the DNS API has received as many create requests as Present was called
\* and as many delete requests as CleanUp was called, failed calls included.
C3_OneRequestPerCall ==
    /\ requests.create = calls.Present
    /\ requests.delete = calls.CleanUp
    /\ ret.op = "Present" => Len(ret.sent) = 1 /\ ret.sent[1].kind = "create"
    /\ ret.op = "CleanUp" => Len(ret.sent) = 1 /\ ret.sent[1].kind = "delete"

C3_Witness ==
    /\ calls.Present = 2
    /\ calls.CleanUp = 1
    /\ ret.op = "Present"
    /\ ret.err # NoErr

\* C4: Present and CleanUp return nil exactly when the API call returned no
\* error, and otherwise the API's error behind the prefix "sakuracloud: ".
C4_PropagatesOutcome ==
    ret.op \in {"Present", "CleanUp"} =>
        /\ ret.err = NoErr <=> ret.api = NoErr
        /\ ret.api # NoErr => ret.err = <<"sakuracloud: ">> \o ret.api

C4_Witness ==
    /\ ret.op = "Present"
    /\ ret.api = ErrAPI
    /\ ret.err = <<"sakuracloud: ">> \o ErrAPI
    /\ calls.CleanUp > 0

\* C5, as stated: every call of Timeout returns the pair the configuration held
\* when the provider was constructed.
C5_Original ==
    ret.op = "Timeout" =>
        ret.pair = [timeout |-> built.timeout, interval |-> built.interval]

\* C5, as amended: Timeout returns PropagationTimeout first and
\* PollingInterval second as the provider's Config holds them at the call; that
\* is the pair of the construction as long as the caller did not write another
\* one into the Config it passed in.
C5_TimeoutReadsConfig ==
    ret.op = "Timeout" =>
        /\ ret.pair.timeout = heap[d.config].PropagationTimeout
        /\ ret.pair.interval = heap[d.config].PollingInterval
        /\ ~built.touched =>
               ret.pair = [timeout |-> built.timeout, interval |-> built.interval]

C5_Witness ==
    /\ ret.op = "Timeout"
    /\ built.touched
    /\ ret.pair.timeout # built.timeout
    /\ calls.Present > 0
    /\ calls.CleanUp > 0

\* The number a variable gives, or the default when it is unset or empty.
FromEnv(env, name, defaultValue) ==
    IF env[name] = <<>> THEN defaultValue ELSE Atoi(env[name])

\* C6: NewDNSProvider returns no provider when the token or the secret variable
\* is unset or empty; a provider it returns has the two credentials of the
\* environment, and TTL, PropagationTimeout, PollingInterval and HTTP timeout
\* from their variables where set, and the defaults (HTTP timeout 10 s) where
\* not.
C6_ConfigFromEnvironment ==
    ret.op = "NewDNSProvider" =>
        /\ (ret.env[EnvAccessToken] = <<>> \/ ret.env[EnvAccessTokenSecret] = <<>>) =>
               /\ ret.prov = NilProvider
               /\ ret.err # NoErr
               /\ ret.config = <<>>
        /\ ret.prov # NilProvider =>
               /\ d = ret.prov
               /\ heap[d.config] = ret.config[1]
               /\ ret.config[1].Token = ret.env[EnvAccessToken]
               /\ ret.config[1].Secret = ret.env[EnvAccessTokenSecret]
               /\ ret.config[1].TTL = FromEnv(ret.env, EnvTTL, 120)
               /\ ret.config[1].PropagationTimeout =
                      FromEnv(ret.env, EnvPropagationTimeout, 60)
               /\ ret.config[1].PollingInterval = FromEnv(ret.env, EnvPollingInterval, 2)
               /\ ret.config[1].HTTPClient.Timeout = FromEnv(ret.env, EnvHTTPTimeout, 10)
               /\ d.client.AccessToken = ret.env[EnvAccessToken]
               /\ d.client.AccessTokenSecret = ret.env[EnvAccessTokenSecret]

C6_Witness ==
    /\ ret.op = "NewDNSProvider"
    /\ ret.prov # NilProvider
    /\ ret.env[EnvPropagationTimeout] = <<>>
    /\ ret.env[EnvPollingInterval] # <<>>
    /\ ret.config[1].PollingInterval = 7

\* C7, as stated: newCaller replaces the default zone if and only if
\* opts.DefaultZone is not empty and overwrites no other package-level variable
\* on a condition: the zone list and the API root stay as they were.
C7_Original ==
    (IsCtor /\ ret.prov # NilProvider) =>
        /\ sdk.APIDefaultZone =
               IF Loaded.DefaultZone # "" THEN Loaded.DefaultZone
               ELSE ret.sdkBefore.APIDefaultZone
        /\ sdk.SakuraCloudZones = ret.sdkBefore.SakuraCloudZones
        /\ sdk.SakuraCloudAPIRoot = ret.sdkBefore.SakuraCloudAPIRoot

\* C7, as amended: newCaller makes three conditional overwrites. The default
\* zone is replaced by opts.DefaultZone if and only if that is not empty, the
\* zone list by opts.Zones if and only if that is not empty, and the API root
\* is replaced if and only if opts.APIRootURL is not empty.
C7_ThreeOverrides ==
    (IsCtor /\ ret.prov # NilProvider) =>
        /\ sdk.APIDefaultZone =
               IF Loaded.DefaultZone # "" THEN Loaded.DefaultZone
               ELSE ret.sdkBefore.APIDefaultZone
        /\ sdk.SakuraCloudZones =
               IF Loaded.Zones # <<>> THEN Loaded.Zones
               ELSE ret.sdkBefore.SakuraCloudZones
        /\ Loaded.APIRootURL = <<>> =>
               sdk.SakuraCloudAPIRoot = ret.sdkBefore.SakuraCloudAPIRoot
        /\ Loaded.APIRootURL # <<>> =>
               IsStripped(sdk.SakuraCloudAPIRoot, Loaded.APIRootURL)

C7_Witness ==
    /\ ret.op = "NewDNSProviderConfig"
    /\ ret.prov # NilProvider
    /\ Loaded.DefaultZone = ""
    /\ Loaded.Zones # <<>>
    /\ ret.sdkBefore.APIDefaultZone = "tk1a"
    /\ sdk.SakuraCloudZones # ret.sdkBefore.SakuraCloudZones

\* C8: after newCaller ran with a non-empty opts.APIRootURL the API root is
\* that URL without its trailing "/" characters and does not end with "/"; with
\* an empty one the API root is unchanged; with empty opts.Zones the zone list
\* is unchanged; the state polling timeout is 72 hours after every successful
\* construction.
C8_RootTrimmed ==
    /\ (IsCtor /\ ret.prov # NilProvider) =>
           /\ Loaded.APIRootURL # <<>> =>
                  /\ IsStripped(sdk.SakuraCloudAPIRoot, Loaded.APIRootURL)
                  /\ ~HasSuffix(sdk.SakuraCloudAPIRoot, "/")
           /\ Loaded.APIRootURL = <<>> =>
                  sdk.SakuraCloudAPIRoot = ret.sdkBefore.SakuraCloudAPIRoot
           /\ Loaded.Zones = <<>> =>
                  sdk.SakuraCloudZones = ret.sdkBefore.SakuraCloudZones
           /\ sdk.DefaultStatePollingTimeout = 72 * 60 * 60
    /\ d # NilProvider => sdk.DefaultStatePollingTimeout = 72 * 60 * 60

C8_Witness ==
    /\ ret.op = "NewDNSProviderConfig"
    /\ ret.prov # NilProvider
    /\ Len(Loaded.APIRootURL) = 5
    /\ HasSuffix(Loaded.APIRootURL, "/")
    /\ sdk.SakuraCloudAPIRoot = <<"u", "/", "v">>

\* C9: a construction that returns an error because the config is nil, the
\* Token or the Secret is empty, or a credential variable is missing, leaves
\* the SDK's package-level variables as they were before the call.
C9_RejectionLeavesSDK ==
    (IsCtor /\ ret.prov = NilProvider) => sdk = ret.sdkBefore

C9_Witness ==
    /\ ret.op = "NewDNSProviderConfig"
    /\ ret.err = ErrSecretMissing
    /\ sdk # InitSDK
    /\ sdk.SakuraCloudAPIRoot = <<"u", "/", "v">>

\* C10: what Present and CleanUp send and return does not depend on the token.
\* For any two tokens, with the same domain, keyAuth, provider, zone and API
\* outcome they send the same request, leave the same zone and return the same
\* error; the request Present sent carries the name and value of
\* (domain, keyAuth) and the TTL of the config.
C10_TokenIgnored ==
    /\ d # NilProvider =>
           \A domain \in Domains, keyAuth \in KeyAuths, api \in APIOutcomes :
               \A t1, t2 \in Tokens :
                   /\ PresentResult(zone, heap[d.config], domain, t1, keyAuth, api)
                          = PresentResult(zone, heap[d.config], domain, t2, keyAuth, api)
                   /\ CleanUpResult(zone, heap[d.config], domain, t1, keyAuth, api)
                          = CleanUpResult(zone, heap[d.config], domain, t2, keyAuth, api)
    /\ ret.op = "Present" =>
           ret.sent = <<[kind |-> "create",
                         fqdn |-> GetChallengeInfo(ret.domain, ret.keyAuth).EffectiveFQDN,
                         value |-> GetChallengeInfo(ret.domain, ret.keyAuth).Value,
                         ttl |-> heap[d.config].TTL]>>
    /\ ret.op = "CleanUp" =>
           ret.sent = <<[kind |-> "delete",
                         fqdn |-> GetChallengeInfo(ret.domain, ret.keyAuth).EffectiveFQDN,
                         value |-> GetChallengeInfo(ret.domain, ret.keyAuth).Value]>>

C10_Witness ==
    /\ ret.op = "Present"
    /\ ret.token = "token2"
    /\ ret.err = NoErr
    /\ ret.sent[1].ttl = 300
    /\ calls.CleanUp > 0

====
